---- MODULE Spec2Model ----
(***************************************************************************)
(* County/FIPS lookup service (src/main.py, src/db.py): the county lookup  *)
(* and normalisation functions, the API-key authentication dependency, the *)
(* usage log and the admin routes, as a state machine over the persistent  *)
(* store.                                                                  *)
(*                                                                         *)
(* Strings the code inspects character by character (upper, strip,         *)
(* endswith, ==) are sequences of one-character strings.  Opaque strings   *)
(* (tokens, fips codes, paths) are TLA+ strings.                           *)
(***************************************************************************)
EXTENDS Integers, Sequences, FiniteSets, TLC

VARIABLES
    users,       \* table users:      id -> [email, is_active]
    api_keys,    \* table api_keys:   key -> [user_id, is_active, last_used_at]
    usage_logs,  \* table usage_logs: sequence of rows in insertion order
    now,         \* the wall clock read by datetime.now(timezone.utc)
    resp,        \* the last request served and the response it received
    authed,      \* keys for which verify_api_key has returned normally
    reqs,        \* in-flight search requests (step-wise execution)
    inp,         \* arguments of a direct call of a lookup function
    call         \* that call with its result

vars == <<users, api_keys, usage_logs, now, resp, authed, reqs, inp, call>>

\* ------------------------------------------------------------------ bounds
MaxBody == 2      \* longest free-form county name body drawn as an input
MaxKeys == 2      \* api key rows
MaxUsers == MaxKeys \* user rows
MaxLogs == 2      \* usage log rows
MaxTime == 2      \* clock ticks
NumReqs == 3      \* concurrent in-flight requests

\* ----------------------------------------------------------------- strings
Lower == <<"a","b","c","d","e","f","g","h","i","j","k","l","m",
           "n","o","p","q","r","s","t","u","v","w","x","y","z">>
Upper == <<"A","B","C","D","E","F","G","H","I","J","K","L","M",
           "N","O","P","Q","R","S","T","U","V","W","X","Y","Z">>

Whitespace == {" ", "\t"}

\* str.upper(), one character
UpperChar(c) ==
    IF \E i \in DOMAIN Lower : Lower[i] = c
    THEN Upper[CHOOSE i \in DOMAIN Lower : Lower[i] = c]
    ELSE c

\* str.upper()
upper(s) == [i \in DOMAIN s |-> UpperChar(s[i])]

\* str.endswith(suffix)
endswith(s, suffix) ==
    /\ Len(suffix) <= Len(s)
    /\ SubSeq(s, Len(s) - Len(suffix) + 1, Len(s)) = suffix

RECURSIVE lstrip(_)
lstrip(s) == IF s # <<>> /\ Head(s) \in Whitespace THEN lstrip(Tail(s)) ELSE s

RECURSIVE rstrip(_)
rstrip(s) ==
    IF s # <<>> /\ s[Len(s)] \in Whitespace
    THEN rstrip(SubSeq(s, 1, Len(s) - 1))
    ELSE s

\* str.strip()
strip(s) == rstrip(lstrip(s))

S_COUNTY == <<" ","C","O","U","N","T","Y">>
S_PARISH == <<" ","P","A","R","I","S","H">>
S_LOUSIANA == <<"L","O","U","S","I","A","N","A">>

\* -------------------------------------------------- the reference dataset
\* fips_list.json as json.load returns it: a list of records, in file order.
ALABAMA == <<"A","L","A","B","A","M","A">>
LOUISIANA == <<"L","O","U","I","S","I","A","N","A">>
TEXAS == <<"T","E","X","A","S">>
LEE_COUNTY == <<"L","E","E"," ","C","O","U","N","T","Y">>
TRAVIS_COUNTY == <<"T","R","A","V","I","S"," ","C","O","U","N","T","Y">>
ORLEANS_PARISH == <<"O","R","L","E","A","N","S"," ","P","A","R","I","S","H">>

counties == <<
    [county |-> LEE_COUNTY, state |-> ALABAMA, stateAbbrev |-> <<"A","L">>, fips |-> "01081"],
    [county |-> ORLEANS_PARISH, state |-> LOUISIANA, stateAbbrev |-> <<"L","A">>, fips |-> "22071"],
    [county |-> LEE_COUNTY, state |-> TEXAS, stateAbbrev |-> <<"T","X">>, fips |-> "48287"],
    [county |-> TRAVIS_COUNTY, state |-> TEXAS, stateAbbrev |-> <<"T","X">>, fips |-> "48453"] >>

\* --------------------------------------------------------- lookup functions
\* raise HTTPException(status_code=404, ...) / a normal return
NotFound == [status |-> 404, body |-> <<>>]
Ok(body) == [status |-> 200, body |-> body]

\* variant: the is_louisiana argument is ignored
normalize_county_parish_ignored(county, is_louisiana) ==
    LET cased == upper(county) IN
    IF ~endswith(cased, S_COUNTY) /\ ~endswith(cased, S_PARISH)
    THEN strip(cased) \o S_COUNTY
    ELSE cased

normalize_county(county, is_louisiana) ==
    LET cased == upper(county)
        ends_with_county == endswith(cased, S_COUNTY)
        ends_with_parish == endswith(cased, S_PARISH)
    IN  IF ~ends_with_county /\ ~ends_with_parish
        THEN IF is_louisiana
             THEN strip(cased) \o S_PARISH
             ELSE strip(cased) \o S_COUNTY
        ELSE cased

\* the for loop of get_counties_by_state over counties[i..]
RECURSIVE by_state_loop(_, _, _)
by_state_loop(i, normalized_state, state_counties) ==
    IF i > Len(counties) THEN state_counties
    ELSE by_state_loop(i + 1, normalized_state,
            IF counties[i].state = normalized_state
            THEN Append(state_counties, counties[i])
            ELSE state_counties)

\* variant: the state loop also matches stateAbbrev
RECURSIVE by_state_loop_abbrev(_, _, _)
by_state_loop_abbrev(i, normalized_state, state_counties) ==
    IF i > Len(counties) THEN state_counties
    ELSE by_state_loop_abbrev(i + 1, normalized_state,
            IF counties[i].state = normalized_state
               \/ counties[i].stateAbbrev = normalized_state
            THEN Append(state_counties, counties[i])
            ELSE state_counties)

get_counties_by_state_with_abbrev(state) ==
    LET state_counties == by_state_loop_abbrev(1, upper(state), <<>>)
    IN  IF state_counties = <<>> THEN NotFound ELSE Ok(state_counties)

get_counties_by_state(state) ==
    LET normalized_state == upper(state)
        state_counties == by_state_loop(1, normalized_state, <<>>)
    IN  IF state_counties = <<>> THEN NotFound ELSE Ok(state_counties)

\* the for loop of get_counties_by_name
RECURSIVE by_name_loop(_, _, _)
by_name_loop(i, normalized_county, state_counties) ==
    IF i > Len(counties) THEN state_counties
    ELSE by_name_loop(i + 1, normalized_county,
            IF counties[i].county = normalized_county
            THEN Append(state_counties, counties[i])
            ELSE state_counties)

get_counties_by_name(name) ==
    LET normalized_county == normalize_county(name, FALSE)
        state_counties == by_name_loop(1, normalized_county, <<>>)
    IN  IF state_counties = <<>> THEN NotFound ELSE Ok(state_counties)

\* the is_louisiana argument get_county_by_state_and_name passes
louisiana_flag(state) == state = S_LOUSIANA

\* the normalized_county local of get_county_by_state_and_name
normalized_county_of(state, county_name) ==
    normalize_county(county_name, louisiana_flag(state))

\* the for loop of get_county_by_state_and_name: returns at the first match
RECURSIVE by_state_and_name_loop(_, _, _)
by_state_and_name_loop(i, normalized_state, normalized_county) ==
    IF i > Len(counties) THEN NotFound
    ELSE IF /\ \/ counties[i].state = normalized_state
               \/ counties[i].stateAbbrev = normalized_state
            /\ counties[i].county = normalized_county
         THEN Ok(<<counties[i]>>)
         ELSE by_state_and_name_loop(i + 1, normalized_state, normalized_county)

\* the advisory string returned (not raised) for a missing argument
Advice == [status |-> 200, body |-> "Please provide a county name and state"]

get_county_by_state_and_name(state, county_name) ==
    IF county_name = <<>> \/ state = <<>> THEN Advice
    ELSE by_state_and_name_loop(1, upper(state),
                                normalized_county_of(state, county_name))

\* ------------------------------------------------------------------ store
\* Optional[datetime] = None
Null == 0

\* an Authorization header: <<>> when absent, <<token>> for "Bearer token"
NoHeader == <<>>
Bearer(token) == <<token>>

\* the one protected route and its method
SearchPath == "/api/v2/search"
SearchMethod == "GET"

\* Status HTTPBearer() (auto_error=True) raises when the header is missing.
\* It is the framework's: 403 "Not authenticated" before FastAPI 0.122,
\* 401 from 0.122 on.  The repository pins no version, so either can be
\* what a deployment answers.
MissingCredentialsStatus == {401, 403}

Emails == {"e1", "e2"}
Tokens == 1..(MaxKeys + 1)
UserIds == 1..(MaxUsers + 1)

\* db.query(APIKey).filter(APIKey.key == credentials, APIKey.is_active).first()
active_key(keys, token) ==
    IF token \in DOMAIN keys /\ keys[token].is_active THEN <<token>> ELSE <<>>

\* db.query(User).filter(User.id == api_key.user_id, User.is_active).first()
active_user(us, user_id) ==
    IF user_id \in DOMAIN us /\ us[user_id].is_active THEN <<user_id>> ELSE <<>>

\* verify_api_key up to its two raises: <<>> for HTTPException(401),
\* <<key, user id>> when both rows are found
resolve(us, keys, token) ==
    LET api_key == active_key(keys, token) IN
    IF api_key = <<>> THEN <<>>
    ELSE LET user == active_user(us, keys[api_key[1]].user_id) IN
         IF user = <<>> THEN <<>> ELSE <<api_key[1], user[1]>>

\* api_key.last_used_at = datetime.now(timezone.utc); db.commit()
\* variant: the update has no WHERE key = ...
touch_all(keys, key, t) == [k \in DOMAIN keys |-> [keys[k] EXCEPT !.last_used_at = t]]

touch(keys, key, t) == [keys EXCEPT ![key].last_used_at = t]

\* log_usage: db.add(UsageLog(...)); db.commit().  The row's id is the
\* store's next serial; its timestamp column, which nothing reads back, is
\* left out of the row.
\* variant: the row is written under a fixed id, replacing the first row
log_usage_overwrite(logs, keys, key, user, path, method, status_code) ==
    LET row == [id |-> 1, user_id |-> user, api_key_str |-> key,
                endpoint |-> path, method |-> method,
                status_code |-> status_code]
    IN  IF logs = <<>> THEN <<row>> ELSE [logs EXCEPT ![1] = row]

log_usage(logs, keys, key, user, path, method, status_code) ==
    Append(logs, [id |-> Len(logs) + 1, user_id |-> user, api_key_str |-> key,
                  endpoint |-> path, method |-> method,
                  status_code |-> status_code])

\* the branch of county_search taken: the status passed to log_usage, or
\* <<>> when the handler raises 400 before logging
logged_status(state, county) ==
    IF state = <<>> /\ county = <<>> THEN <<>> ELSE <<200>>

\* the lookup county_search returns after logging
search_result(state, county) ==
    IF state # <<>> /\ county = <<>> THEN get_counties_by_state(state)
    ELSE IF county # <<>> /\ state = <<>> THEN get_counties_by_name(county)
    ELSE get_county_by_state_and_name(state, county)

\* GET /admin/usage/{user_id}: the logs query and total_requests = len(logs)
get_usage(logs, user_id) ==
    LET rows == SelectSeq(logs, LAMBDA l : l.user_id = user_id)
    IN  [user_id |-> user_id, total_requests |-> Len(rows), logs |-> rows]

\* ------------------------------------------------------- requests, in turn
\* query parameters the search route is driven with
T_texas == <<"t","e","x","a","s">>
T_tx == <<"t","x">>
T_lee == <<"l","e","e">>
T_nowhere == <<"x">>
\* <<state, county>>: neither (400), a state alone (found; an abbreviation,
\* not found), a county alone (found), both (not found)
Queries == { <<<<>>, <<>>>>, <<T_texas, <<>>>>, <<T_tx, <<>>>>, <<<<>>, T_lee>>,
             <<T_tx, T_nowhere>> }

Response(op, status, header, state, county, user_id, key) ==
    [op |-> op, status |-> status, header |-> header, state |-> state,
     county |-> county, user_id |-> user_id, key |-> key]

NoResponse == Response("none", Null, NoHeader, <<>>, <<>>, Null, Null)

Idle == [r \in 1..NumReqs |-> [pc |-> "idle"]]
NoInput == [fn |-> "none"]

\* the clock read t, at or after the last reading
ClockReads(t) == {u \in t..(t + 1) : u <= MaxTime}

\* GET /api/v2/search, one request start to finish: the HTTPBearer
\* dependency, verify_api_key, then the handler body
Search(header, state, county) ==
    /\ Len(usage_logs) < MaxLogs        \* the model's bound on the table
    /\ UNCHANGED <<users, reqs, inp, call>>
    /\ IF header = NoHeader
       THEN \E s \in MissingCredentialsStatus :
              /\ resp' = Response("search", s, header, state, county, Null, Null)
              /\ UNCHANGED <<api_keys, usage_logs, now, authed>>
       ELSE LET auth_data == resolve(users, api_keys, header[1]) IN
            IF auth_data = <<>>
            THEN /\ resp' = Response("search", 401, header, state, county, Null, Null)
                 /\ UNCHANGED <<api_keys, usage_logs, now, authed>>
            ELSE \E t \in ClockReads(now) :
                 /\ api_keys' = touch(api_keys, auth_data[1], t)
                 /\ authed' = authed \cup {auth_data[1]}
                 /\ IF logged_status(state, county) = <<>>
                    THEN /\ resp' = Response("search", 400, header, state, county,
                                             auth_data[2], auth_data[1])
                         /\ now' = t
                         /\ UNCHANGED usage_logs
                    ELSE /\ usage_logs' = log_usage(usage_logs, api_keys', auth_data[1],
                                              auth_data[2], SearchPath, SearchMethod,
                                              logged_status(state, county)[1])
                         /\ now' = t
                         /\ resp' = Response("search", search_result(state, county).status,
                                             header, state, county,
                                             auth_data[2], auth_data[1])

\* POST /admin/users
CreateUser(email) ==
    /\ Len(users) < MaxUsers
    /\ UNCHANGED <<api_keys, usage_logs, now, authed, reqs, inp, call>>
    /\ IF \E i \in DOMAIN users : users[i].email = email
       THEN \* unique index on users.email: the commit raises, nothing is stored
            /\ resp' = Response("create_user", 500, NoHeader, <<>>, <<>>, Null, Null)
            /\ UNCHANGED users
       ELSE /\ users' = Append(users, [email |-> email, is_active |-> TRUE])
            /\ resp' = Response("create_user", 200, NoHeader, <<>>, <<>>,
                                Len(users) + 1, Null)

\* secrets.token_urlsafe(32): a token no stored key has
fresh_key(keys) == CHOOSE t \in Tokens : t \notin DOMAIN keys

\* the user row create_api_key looks up, <<>> when there is none
\* variant: the user lookup is skipped
owner_unchecked(us, user_id) == <<user_id>>

owner(us, user_id) == IF user_id \in DOMAIN us THEN <<user_id>> ELSE <<>>

\* the APIKey row create_api_key adds
\* variant: the row is given the first user's id
new_key_row_first_user(user_id) ==
    [user_id |-> 1, is_active |-> TRUE, last_used_at |-> Null]

new_key_row(user_id) ==
    [user_id |-> user_id, is_active |-> TRUE, last_used_at |-> Null]

\* POST /admin/api-keys
CreateApiKey(user_id) ==
    /\ Cardinality(DOMAIN api_keys) < MaxKeys
    /\ UNCHANGED <<users, usage_logs, now, authed, reqs, inp, call>>
    /\ IF owner(users, user_id) = <<>>
       THEN /\ resp' = Response("create_api_key", 404, NoHeader, <<>>, <<>>, user_id, Null)
            /\ UNCHANGED api_keys
       ELSE LET key == fresh_key(api_keys) IN
            /\ api_keys' = [k \in DOMAIN api_keys \cup {key} |->
                              IF k = key THEN new_key_row(user_id) ELSE api_keys[k]]
            /\ resp' = Response("create_api_key", 200, NoHeader, <<>>, <<>>, user_id, key)

\* The store outlives the process: it starts with the rows earlier runs and
\* out-of-band administration left, here one user and one key of theirs,
\* either possibly deactivated.
Init ==
    /\ \E ua \in BOOLEAN : users = <<[email |-> "e1", is_active |-> ua]>>
    /\ \E ka \in BOOLEAN :
         api_keys = [k \in {1} |-> [user_id |-> 1, is_active |-> ka, last_used_at |-> Null]]
    /\ usage_logs = <<>>
    /\ now = 1
    /\ resp = NoResponse
    /\ authed = {}
    /\ reqs = Idle
    /\ inp = NoInput
    /\ call = NoInput

Next ==
    \/ \E h \in {NoHeader} \cup {Bearer(t) : t \in Tokens}, q \in Queries :
          Search(h, q[1], q[2])
    \/ \E e \in Emails : CreateUser(e)
    \/ \E u \in UserIds : CreateApiKey(u)

Spec == Init /\ [][Next]_vars

\* --------------------------------------------------- properties, in turn
\* Every step of Spec serves one request, the one resp' describes.
SearchStep == resp'.op = "search"

\* The four rejected cases of C1, read off the tables as the request arrives.
NoSuchKey(h) == h # NoHeader /\ h[1] \notin DOMAIN api_keys
RevokedKey(h) == h # NoHeader /\ h[1] \in DOMAIN api_keys /\ ~api_keys[h[1]].is_active
OwnerInactive(h) ==
    /\ h # NoHeader /\ h[1] \in DOMAIN api_keys /\ api_keys[h[1]].is_active
    /\ \/ api_keys[h[1]].user_id \notin DOMAIN users
       \/ ~users[api_keys[h[1]].user_id].is_active
Rejected(h) == h = NoHeader \/ NoSuchKey(h) \/ RevokedKey(h) \/ OwnerInactive(h)

\* An active key of an active user is presented.
Authenticated(h) ==
    /\ h # NoHeader /\ h[1] \in DOMAIN api_keys /\ api_keys[h[1]].is_active
    /\ api_keys[h[1]].user_id \in DOMAIN users
    /\ users[api_keys[h[1]].user_id].is_active

\* C1: a search with no Authorization header, an unknown token, a revoked
\* key or a key whose owner is inactive or absent is answered 401, and it
\* modifies no last_used_at and appends no usage log.
C1_RejectedWith401 ==
    [][SearchStep /\ Rejected(resp'.header)
        => /\ resp'.status = 401
           /\ api_keys' = api_keys
           /\ usage_logs' = usage_logs]_vars

\* The part of C1 the handlers of this repository decide: a presented token
\* that does not resolve is answered 401, and no rejected request, with or
\* without header, changes the store.
RejectedChangesNothing ==
    [][SearchStep /\ Rejected(resp'.header)
        => /\ resp'.header # NoHeader => resp'.status = 401
           /\ resp'.status \in MissingCredentialsStatus
           /\ api_keys' = api_keys
           /\ usage_logs' = usage_logs]_vars

\* C2: an authenticated search with a state or a county appends exactly one
\* usage log, of the key's owner, so the owner's total_requests grows by 1;
\* the row carries the request's user, key, endpoint and method and the
\* status of the response actually sent; the earlier rows are unchanged.
C2_OneLogMatchingResponse ==
    [][SearchStep /\ Authenticated(resp'.header)
         /\ (resp'.state # <<>> \/ resp'.county # <<>>)
        => LET key == resp'.header[1]
               user == api_keys[key].user_id
               n == Len(usage_logs)
           IN  /\ Len(usage_logs') = n + 1
               /\ SubSeq(usage_logs', 1, n) = usage_logs
               /\ get_usage(usage_logs', user).total_requests
                    = get_usage(usage_logs, user).total_requests + 1
               /\ usage_logs'[n + 1].user_id = user
               /\ usage_logs'[n + 1].api_key_str = key
               /\ usage_logs'[n + 1].endpoint = SearchPath
               /\ usage_logs'[n + 1].method = SearchMethod
               /\ usage_logs'[n + 1].status_code = resp'.status]_vars

\* C3: a search answered with an error (401, 400, 404) appends no usage log;
\* only a search answered 200 adds one.
C3_ErrorsNotLogged ==
    [][SearchStep
        => /\ resp'.status \in {400, 401, 404} => usage_logs' = usage_logs
           /\ usage_logs' # usage_logs => resp'.status = 200]_vars

\* C4: a search that authenticates leaves the key's last_used_at at the
\* time it read, whatever the handler then answers (200, 400 or 404); no
\* other key's row changes; no last_used_at ever decreases; and a key that
\* never authenticated has last_used_at = null.
C4_LastUsedAt ==
    /\ [](\A k \in DOMAIN api_keys :
            k \notin authed => api_keys[k].last_used_at = Null)
    /\ [][/\ \A k \in DOMAIN api_keys :
               /\ k \in DOMAIN api_keys'
               /\ api_keys'[k].last_used_at >= api_keys[k].last_used_at
          /\ SearchStep /\ Authenticated(resp'.header)
               => /\ resp'.status \in {200, 400, 404}
                  /\ now' >= now
                  /\ api_keys'[resp'.header[1]].last_used_at = now'
                  /\ \A k \in DOMAIN api_keys \ {resp'.header[1]} :
                       api_keys'[k] = api_keys[k]
          /\ SearchStep /\ ~Authenticated(resp'.header)
               => api_keys' = api_keys]_vars

\* C4's case: the handler failed (400 or 404) after a key authenticated at
\* a later time than the store started at, next to a key never used.
C4_Witness ==
    /\ resp.op = "search" /\ resp.status \in {400, 404}
    /\ api_keys[resp.key].last_used_at = now /\ now > 1
    /\ \E k \in DOMAIN api_keys : k # resp.key /\ api_keys[k].last_used_at = Null

\* C5 as stated: the token POST /admin/api-keys returns for a user_id
\* authenticates at once, to a key and user of that user_id; for a user_id
\* with no row the answer is 404 and no key is stored.
C5_CreatedKeyAuthenticates ==
    [][resp'.op = "create_api_key"
        => IF resp'.user_id \in DOMAIN users
           THEN /\ resp'.status = 200
                /\ resolve(users', api_keys', resp'.key) = <<resp'.key, resp'.user_id>>
           ELSE /\ resp'.status = 404
                /\ api_keys' = api_keys]_vars

\* C5 amended: the returned token is a new active key owned by user_id; it
\* authenticates at once to that user when the user is active and is
\* rejected when the user is inactive; no row, 404 and no key stored.
C5_CreatedKeyAuthenticatesIfActive ==
    [][resp'.op = "create_api_key"
        => IF resp'.user_id \in DOMAIN users
           THEN /\ resp'.status = 200
                /\ resp'.key \notin DOMAIN api_keys
                /\ DOMAIN api_keys' = DOMAIN api_keys \cup {resp'.key}
                /\ api_keys'[resp'.key].user_id = resp'.user_id
                /\ resolve(users', api_keys', resp'.key) =
                     IF users[resp'.user_id].is_active
                     THEN <<resp'.key, resp'.user_id>> ELSE <<>>
           ELSE /\ resp'.status = 404
                /\ api_keys' = api_keys]_vars

\* C5's case: a key just created for the second user, who is active, and
\* the token resolving to that key and user.
C5_Witness ==
    /\ resp.op = "create_api_key" /\ resp.status = 200 /\ resp.user_id = 2
    /\ resolve(users, api_keys, resp.key) = <<resp.key, 2>>

\* C9: every key's user_id is a stored user; every usage log's api_key is a
\* stored key owned by the log's user_id, a stored user.
C9_ReferentialIntegrity ==
    /\ \A k \in DOMAIN api_keys : api_keys[k].user_id \in DOMAIN users
    /\ \A i \in DOMAIN usage_logs :
         /\ usage_logs[i].api_key_str \in DOMAIN api_keys
         /\ api_keys[usage_logs[i].api_key_str].user_id = usage_logs[i].user_id
         /\ usage_logs[i].user_id \in DOMAIN users

\* C9's case: a created user whose created key has just been used for a
\* search that was logged.
C9_Witness ==
    /\ Len(users) = 2
    /\ \E i \in DOMAIN usage_logs :
         usage_logs[i].user_id = 2 /\ usage_logs[i].api_key_str # 1
    /\ resp.op = "search" /\ resp.status = 200

\* ------------------------------------------ the lookup functions, called
\* Arguments: a county name is an optional leading blank, a body, an
\* optional suffix in either case (or a near miss), an optional trailing
\* blank.
BodyChars == {"a", " "}
T_orleans == <<"O","r","l","e","a","n","s">>
Bodies ==
    UNION {[1..n -> BodyChars] : n \in 0..MaxBody} \cup {T_lee, T_orleans, T_nowhere}
Suffixes ==
    { <<>>, S_COUNTY, S_PARISH,
      <<" ","c","o","u","n","t","y">>, <<" ","P","a","r","i","s","h">>,
      <<"C","O","U","N","T","Y">> }
Blanks == {<<>>, <<" ">>}
Names == {l \o b \o x \o t : l \in Blanks, b \in Bodies, x \in Suffixes, t \in Blanks}

States ==
    { <<>>, T_texas, T_tx, TEXAS, <<"T","X">>, LOUISIANA,
      <<"L","o","u","i","s","i","a","n","a">>, <<"l","a">>, S_LOUSIANA,
      <<"o","h","i","o">> }

Args(fn, name, flag, state) == [fn |-> fn, name |-> name, flag |-> flag, state |-> state]

Inputs ==
    {Args("normalize_county", n, f, <<>>) : n \in Names, f \in BOOLEAN}
    \cup {Args("get_counties_by_state", <<>>, FALSE, s) : s \in States}
    \cup {Args("get_counties_by_name", n, FALSE, <<>>) : n \in Names}
    \cup {Args("get_county_by_state_and_name", n, FALSE, s) : n \in Names, s \in States}

Returned(result, normalized_county) ==
    [fn |-> inp.fn, name |-> inp.name, flag |-> inp.flag, state |-> inp.state,
     result |-> result, normalized_county |-> normalized_county]

CallNormalize ==
    /\ inp.fn = "normalize_county" /\ call = NoInput
    /\ call' = Returned(normalize_county(inp.name, inp.flag), <<>>)
    /\ UNCHANGED <<users, api_keys, usage_logs, now, resp, authed, reqs, inp>>

CallByState ==
    /\ inp.fn = "get_counties_by_state" /\ call = NoInput
    /\ call' = Returned(get_counties_by_state(inp.state), <<>>)
    /\ UNCHANGED <<users, api_keys, usage_logs, now, resp, authed, reqs, inp>>

CallByName ==
    /\ inp.fn = "get_counties_by_name" /\ call = NoInput
    /\ call' = Returned(get_counties_by_name(inp.name), normalize_county(inp.name, FALSE))
    /\ UNCHANGED <<users, api_keys, usage_logs, now, resp, authed, reqs, inp>>

CallByStateAndName ==
    /\ inp.fn = "get_county_by_state_and_name" /\ call = NoInput
    /\ call' = Returned(get_county_by_state_and_name(inp.state, inp.name),
                        normalized_county_of(inp.state, inp.name))
    /\ UNCHANGED <<users, api_keys, usage_logs, now, resp, authed, reqs, inp>>

InitLookup ==
    /\ users = <<>>
    /\ api_keys = <<>>
    /\ usage_logs = <<>>
    /\ now = 1
    /\ resp = NoResponse
    /\ authed = {}
    /\ reqs = Idle
    /\ inp \in Inputs
    /\ call = NoInput

NextLookup == CallNormalize \/ CallByState \/ CallByName \/ CallByStateAndName

SpecLookup == InitLookup /\ [][NextLookup]_vars

HasSuffix(s) == endswith(s, S_COUNTY) \/ endswith(s, S_PARISH)
SuffixFor(flag) == IF flag THEN S_PARISH ELSE S_COUNTY

\* a state argument that names Louisiana, in full or abbreviated
IsLouisiana(state) == upper(state) \in {LOUISIANA, <<"L","A">>}

\* C6: for a non-empty state and county, get_county_by_state_and_name
\* succeeds exactly when a record has state or stateAbbrev = upper(state)
\* and county = normalize(county, state is Louisiana); what it returns
\* satisfies that; otherwise it fails 404; and for a Louisiana state and a
\* county without suffix the normalized county ends in " PARISH".
C6_StateAndCountyLookup ==
    call.fn = "get_county_by_state_and_name" /\ call.state # <<>> /\ call.name # <<>>
    => LET wanted == normalize_county(call.name, IsLouisiana(call.state))
           Match(r) ==
               /\ r.state = upper(call.state) \/ r.stateAbbrev = upper(call.state)
               /\ r.county = wanted
           found == \E i \in DOMAIN counties : Match(counties[i])
       IN  /\ call.result.status = 200 <=> found
           /\ call.result.status = 200
                => \A i \in DOMAIN call.result.body : Match(call.result.body[i])
           /\ ~found => call.result = NotFound
           /\ IsLouisiana(call.state) /\ ~HasSuffix(upper(call.name))
                => endswith(call.normalized_county, S_PARISH)

\* What the lookup does with the flag it computes (state == "LOUSIANA"):
\* the same equivalence with that flag in place of "state is Louisiana".
StateAndCountyLookupAsCoded ==
    call.fn = "get_county_by_state_and_name" /\ call.state # <<>> /\ call.name # <<>>
    => LET wanted == IF HasSuffix(upper(call.name)) THEN upper(call.name)
                     ELSE strip(upper(call.name)) \o SuffixFor(call.state = S_LOUSIANA)
           Match(r) ==
               /\ r.state = upper(call.state) \/ r.stateAbbrev = upper(call.state)
               /\ r.county = wanted
           hits == SelectSeq(counties, Match)
       IN  /\ call.normalized_county = wanted
           /\ call.result = IF hits = <<>> THEN NotFound ELSE Ok(<<hits[1]>>)

\* C7 as stated: normalize_county returns the input uppercased and trimmed,
\* with " PARISH" / " COUNTY" appended exactly when the uppercased input
\* ends in neither; and normalizing the result again changes nothing.
C7_UppercasedTrimmedSuffixed ==
    call.fn = "normalize_county"
    => LET cased == upper(call.name) IN
       /\ call.result = IF HasSuffix(cased) THEN strip(cased)
                        ELSE strip(cased) \o SuffixFor(call.flag)
       /\ normalize_county(call.result, call.flag) = call.result

\* no blank at either end
Trimmed(s) == s = <<>> \/ (s[1] \notin Whitespace /\ s[Len(s)] \notin Whitespace)

\* C7 amended: the result is the uppercased input itself, blanks included,
\* when that already ends in " COUNTY" or " PARISH"; otherwise it is the
\* uppercased input trimmed at both ends, with " PARISH" (is_louisiana) or
\* " COUNTY" appended; normalizing the result again changes nothing.
C7_UppercasedSuffixedTrimmedWhenAppending ==
    call.fn = "normalize_county"
    => LET cased == upper(call.name)
           n == Len(call.result) - Len(SuffixFor(call.flag))
       IN  /\ HasSuffix(cased) => call.result = cased
           /\ ~HasSuffix(cased) =>
                /\ endswith(call.result, SuffixFor(call.flag))
                /\ Trimmed(SubSeq(call.result, 1, n))
                /\ \E i, j \in 0..Len(cased) :
                     /\ SubSeq(cased, i + 1, j) = SubSeq(call.result, 1, n)
                     /\ \A m \in (1..i) \cup ((j + 1)..Len(cased)) : cased[m] \in Whitespace
           /\ \A m \in DOMAIN call.result : call.result[m] \notin {Lower[x] : x \in DOMAIN Lower}
           /\ normalize_county(call.result, call.flag) = call.result

\* C7's case: an already suffixed name with a leading blank comes back
\* uppercased with the blank still in front.
C7_Witness ==
    /\ call.fn = "normalize_county" /\ call.flag
    /\ call.name = <<" ","a"," ","c","o","u","n","t","y">>
    /\ call.result = <<" ","A"," ","C","O","U","N","T","Y">>

\* C8: get_counties_by_state returns exactly the records whose state field
\* is upper(state), in dataset order, never matching through stateAbbrev,
\* and fails 404 exactly when there is no such record.
C8_ByStateExact ==
    call.fn = "get_counties_by_state"
    => LET hits == SelectSeq(counties, LAMBDA r : r.state = upper(call.state))
       IN  /\ call.result.status = 404 <=> hits = <<>>
           /\ hits # <<>> => call.result = Ok(hits)
           /\ hits = <<>> => call.result = NotFound

\* C8's case: "texas" returns the two Texas records in dataset order.
C8_Witness ==
    /\ call.fn = "get_counties_by_state" /\ call.state = T_texas
    /\ call.result.status = 200 /\ Len(call.result.body) = 2
    /\ call.result.body[1].fips = "48287" /\ call.result.body[2].fips = "48453"

\* ------------------------------------- search requests, statement by statement
\* Several searches in flight at once, all presenting the one stored key.
\* Each runs in its own session (get_db); a step is one clock read or one
\* committed statement.  Steps of different requests interleave freely, as
\* they can between worker processes; a single event loop allows fewer
\* interleavings, all of them among these.
ConcQueries == { <<<<>>, <<>>>>, <<T_tx, <<>>>> }

InFlight(pc, token, query, key, user, ts, logged, status) ==
    [pc |-> pc, token |-> token, query |-> query, key |-> key, user |-> user,
     ts |-> ts, logged |-> logged, status |-> status]

\* the request reaches the server
Arrive(r, token, q) ==
    /\ reqs[r].pc = "idle"
    /\ reqs' = [reqs EXCEPT ![r] =
                  InFlight("verify", token, q, Null, Null, Null, FALSE, Null)]
    /\ UNCHANGED <<users, api_keys, usage_logs, now, resp, authed, inp, call>>

\* verify_api_key: the two queries and their raises
Verify(r) ==
    /\ reqs[r].pc = "verify"
    /\ LET auth_data == resolve(users, api_keys, reqs[r].token) IN
       reqs' = [reqs EXCEPT ![r] =
                  IF auth_data = <<>>
                  THEN [@ EXCEPT !.pc = "done", !.status = 401]
                  ELSE [@ EXCEPT !.pc = "stamp", !.key = auth_data[1],
                                 !.user = auth_data[2]]]
    /\ UNCHANGED <<users, api_keys, usage_logs, now, resp, authed, inp, call>>

\* verify_api_key: api_key.last_used_at = datetime.now(timezone.utc), in the session
Stamp(r) ==
    /\ reqs[r].pc = "stamp"
    /\ \E t \in ClockReads(now) :
         /\ now' = t
         /\ reqs' = [reqs EXCEPT ![r] = [@ EXCEPT !.pc = "commit", !.ts = t]]
    /\ UNCHANGED <<users, api_keys, usage_logs, resp, authed, inp, call>>

\* verify_api_key: db.commit() writes the session's last_used_at
Commit(r) ==
    /\ reqs[r].pc = "commit"
    /\ api_keys' = touch(api_keys, reqs[r].key, reqs[r].ts)
    /\ authed' = authed \cup {reqs[r].key}
    /\ reqs' = [reqs EXCEPT ![r] = [@ EXCEPT !.pc = "handler"]]
    /\ UNCHANGED <<users, usage_logs, now, resp, inp, call>>

\* county_search up to and including log_usage
Handle(r) ==
    /\ reqs[r].pc = "handler"
    /\ LET q == reqs[r].query IN
       IF logged_status(q[1], q[2]) = <<>>
       THEN /\ reqs' = [reqs EXCEPT ![r] = [@ EXCEPT !.pc = "done", !.status = 400]]
            /\ UNCHANGED usage_logs
       ELSE /\ usage_logs' = log_usage(usage_logs, api_keys, reqs[r].key, reqs[r].user,
                                       SearchPath, SearchMethod,
                                       logged_status(q[1], q[2])[1])
            /\ reqs' = [reqs EXCEPT ![r] = [@ EXCEPT !.pc = "lookup", !.logged = TRUE]]
    /\ UNCHANGED <<users, api_keys, now, resp, authed, inp, call>>

\* county_search: the lookup it returns
Lookup(r) ==
    /\ reqs[r].pc = "lookup"
    /\ LET q == reqs[r].query IN
       reqs' = [reqs EXCEPT ![r] =
                  [@ EXCEPT !.pc = "done", !.status = search_result(q[1], q[2]).status]]
    /\ UNCHANGED <<users, api_keys, usage_logs, now, resp, authed, inp, call>>

InitConc ==
    /\ users = <<[email |-> "e1", is_active |-> TRUE]>>
    /\ \E ka \in BOOLEAN :
         api_keys = [k \in {1} |->
                       [user_id |-> 1, is_active |-> ka, last_used_at |-> Null]]
    /\ usage_logs = <<>>
    /\ now = 1
    /\ resp = NoResponse
    /\ authed = {}
    /\ reqs = Idle
    /\ inp = NoInput
    /\ call = NoInput

NextConc ==
    \E r \in 1..NumReqs :
        \/ \E k \in DOMAIN api_keys, q \in ConcQueries : Arrive(r, k, q)
        \/ Verify(r)
        \/ Stamp(r)
        \/ Commit(r)
        \/ Handle(r)
        \/ Lookup(r)

SpecConc == InitConc /\ [][NextConc]_vars

AllDone == \A r \in 1..NumReqs : reqs[r].pc = "done"
Using(k) == {r \in 1..NumReqs : reqs[r].pc # "idle" /\ reqs[r].token = k}
Logging(k) == {r \in Using(k) : reqs[r].logged}
Committed(k) == {r \in Using(k) : reqs[r].pc \in {"handler", "lookup", "done"}
                                  /\ reqs[r].ts # Null}

\* C10: however the requests using one key interleave, the usage logs number
\* exactly the requests that reached logging, each row with its own id; and
\* once all have finished, the key's last_used_at is the time one of them
\* wrote (null only when none authenticated).
C10_NoLostLogLastWriterWins ==
    \A k \in DOMAIN api_keys :
        /\ Cardinality({i \in DOMAIN usage_logs : usage_logs[i].api_key_str = k})
             = Cardinality(Logging(k))
        /\ \A i \in DOMAIN usage_logs : usage_logs[i].id = i
        /\ AllDone =>
             IF Committed(k) = {}
             THEN api_keys[k].last_used_at = Null
             ELSE api_keys[k].last_used_at \in {reqs[r].ts : r \in Committed(k)}

\* C10's case: all requests done, at least two logged, and the stored
\* last_used_at is the earlier of two different times written (the later
\* writer read the clock first).
C10_Witness ==
    \E k \in DOMAIN api_keys :
        /\ AllDone /\ Cardinality(Logging(k)) >= 2
        /\ \E r \in Committed(k) : reqs[r].ts > api_keys[k].last_used_at
        /\ api_keys[k].last_used_at # Null

====
